---- MODULE Spec2Model ----
(***************************************************************************)
(* vsse: SSEClient (src/src/sse-client.js), the connection lifecycle       *)
(* controller of a single multiplexed Server-Sent-Events connection.       *)
(*                                                                         *)
(* One SSEClient instance is modelled.  Every method of the class is an    *)
(* operator that maps the object's state (a record holding the fields of   *)
(* `this`, the window timers it owns and the transport handles it has      *)
(* constructed) to the state after the method has returned; methods call   *)
(* each other exactly as in the source.  Every action of Next is one       *)
(* JavaScript task: a caller's call, a transport callback or a timer       *)
(* callback, run to completion.                                            *)
(***************************************************************************)
EXTENDS Integers, Sequences, FiniteSets, TLC

(***************************************************************************)
(* Program constants                                                       *)
(***************************************************************************)
\* this._minConnectInterval (ms)
MinConnectInterval == 500
\* period of the heartbeat setInterval (ms)
HeartbeatTickMs == 5000

(***************************************************************************)
(* Bounds of the model                                                     *)
(***************************************************************************)
\* granularity of the clock (ms)
Quantum == MinConnectInterval
\* Date.now() when the instance is constructed (ms); the epoch clock is far
\* beyond every duration the client is configured with
StartTime == 200 * Quantum
\* the clock stops MaxTicks quanta after construction
MaxTicks == 1
\* calls of `new EventSourcePolyfill` in one behaviour, returning or throwing
MaxOpens == 2
\* the clock of SpecIdle stops IdleTicks quanta after construction
IdleTicks == 2
\* the clock of SpecHeartbeat stops MaxBeats heartbeat periods after construction
MaxBeats == 1
\* calls of `new EventSourcePolyfill` in one behaviour of SpecBackoff
MaxAttempts == 6

\* calls of `new EventSourcePolyfill` in one behaviour of SpecReconnect
MaxRetries == 3

\* the clock of SpecWatchdog stops WatchTicks quanta after construction
WatchTicks == 10

RequestIds == {"r1", "r2"}
Callbacks == {"f", "g"}
\* data.event of a frame; NoEvent: the payload has no `event` field
NoEvent == "none"
Events == {NoEvent, "progress", "done", "error", "ping"}
\* the frames of the registry specifications carry no heartbeat marker
PlainEvents == Events \ {"ping"}
\* an `event` field that is present and falsy: the empty string
EmptyEvent == ""
\* x || ... takes x: the field is present and its value is truthy
Truthy(x) == x \notin {NoEvent, EmptyEvent}
\* no requestId field in a frame
NoRid == "none"
\* JSON.parse(ev.data): a JSON object, JSON that is no object, or a throw
ParseKinds == {"object", "nonobject", "invalid"}
NoUrl == "none"
Urls == {"u1", "u2"}
\* this.es === undefined
NoHandle == 0
\* an unset timer id
NoTimer == [kind |-> "none", at |-> 0]
\* Math.random() is a multiple of 1/RndScale in [0, 1)
RndScale == 1000
\* the page holds one instance only
NoPeer == [obj |-> "none"]

Max(a, b) == IF a >= b THEN a ELSE b
Min(a, b) == IF a <= b THEN a ELSE b

RECURSIVE Pow(_, _)
Pow(b, e) == IF e = 0 THEN 1 ELSE b * Pow(b, e - 1)

\* a JavaScript Set keeps insertion order: a sequence without repetition
SetAdd(q, x) == IF \E i \in 1..Len(q) : q[i] = x THEN q ELSE Append(q, x)
SetDelete(q, x) == SelectSeq(q, LAMBDA y : y # x)
SetElems(q) == {q[i] : i \in 1..Len(q)}

\* sorted insertion into the list of pending retry deadlines
RECURSIVE InsertSorted(_, _)
InsertSorted(q, x) ==
  IF q = <<>> THEN <<x>>
  ELSE IF x <= Head(q) THEN <<x>> \o q
  ELSE <<Head(q)>> \o InsertSorted(Tail(q), x)

RemoveAt(q, i) == SubSeq(q, 1, i - 1) \o SubSeq(q, i + 1, Len(q))

VARIABLES
  now,                 \* Date.now()
  opts,                \* this.opts
  es,                  \* this.es: NoHandle or the handle held
  listeners,           \* this.listeners: requestId -> callback
  globalListeners,     \* this.globalListeners
  backoffAttempts,     \* this.backoffState.attempts
  idleTimer,           \* this.idleTimer and what it was scheduled to do
  lastActiveAt,        \* this.lastActiveAt
  lastMessageAt,       \* this.lastMessageAt
  lastHeartbeatAt,     \* this.lastHeartbeatAt
  heartbeatIntervalId, \* this.heartbeatIntervalId: next tick of the interval
  connectionState,     \* this.connectionState
  connectLock,         \* this._connectLock
  connectAttempts,     \* this._connectAttempts
  lastConnectAttempt,  \* this._lastConnectAttempt
  activityBound,       \* the window listeners of setupActivityListeners are attached
  retryTimers,         \* deadlines of the pending setTimeout of scheduleReconnect
  live,                \* EventSource objects constructed and not yet close()d
  opened,              \* the live handles that have signalled `open`
  constructed,         \* number of EventSource objects constructed so far
  ctorFailed,          \* number of EventSource constructions that threw
  sinceClose,          \* handles constructed since close() last ran
  pendingPosts,        \* requestIds whose fetch() is in flight
  unsubs,              \* requestIds whose unsubscribe closure the caller holds
  bunsubs,             \* callbacks whose onBroadcast unsubscribe closure the caller holds
  invoked,             \* callbacks invoked by the task that ran last, in order
  last,                \* the task that ran last and what it returned
  idleDue,             \* history: when the idle close that followed the removal of
                       \* the last listener is due (0: none is due)
  maxOpens,            \* calls of `new EventSourcePolyfill` the environment of this
                       \* behaviour goes along with
  peer                 \* a second SSEClient instance of the same page and its
                       \* caller's side, or NoPeer

vars == <<now, opts, es, listeners, globalListeners, backoffAttempts, idleTimer,
          lastActiveAt, lastMessageAt, lastHeartbeatAt, heartbeatIntervalId,
          connectionState, connectLock, connectAttempts, lastConnectAttempt,
          activityBound, retryTimers, live, opened, constructed, ctorFailed,
          sinceClose, pendingPosts, unsubs, bunsubs, invoked, last, idleDue,
          maxOpens, peer>>

\* the object, the timers and the handles as one value the methods map, beside
\* the other instance p of the page
Beside(p) ==
  [now |-> now, opts |-> opts, es |-> es, listeners |-> listeners,
   globalListeners |-> globalListeners, backoffAttempts |-> backoffAttempts,
   idleTimer |-> idleTimer, lastActiveAt |-> lastActiveAt,
   lastMessageAt |-> lastMessageAt, lastHeartbeatAt |-> lastHeartbeatAt,
   heartbeatIntervalId |-> heartbeatIntervalId,
   connectionState |-> connectionState, connectLock |-> connectLock,
   connectAttempts |-> connectAttempts, lastConnectAttempt |-> lastConnectAttempt,
   activityBound |-> activityBound, retryTimers |-> retryTimers, live |-> live,
   opened |-> opened, constructed |-> constructed, ctorFailed |-> ctorFailed,
   sinceClose |-> sinceClose, invoked |-> <<>>, peer |-> p]

Cur == Beside(peer)

Commit(t) ==
  /\ opts' = t.opts
  /\ es' = t.es
  /\ listeners' = t.listeners
  /\ globalListeners' = t.globalListeners
  /\ backoffAttempts' = t.backoffAttempts
  /\ idleTimer' = t.idleTimer
  /\ lastActiveAt' = t.lastActiveAt
  /\ lastMessageAt' = t.lastMessageAt
  /\ lastHeartbeatAt' = t.lastHeartbeatAt
  /\ heartbeatIntervalId' = t.heartbeatIntervalId
  /\ connectionState' = t.connectionState
  /\ connectLock' = t.connectLock
  /\ connectAttempts' = t.connectAttempts
  /\ lastConnectAttempt' = t.lastConnectAttempt
  /\ activityBound' = t.activityBound
  /\ retryTimers' = t.retryTimers
  /\ live' = t.live
  /\ opened' = t.opened
  /\ constructed' = t.constructed
  /\ ctorFailed' = t.ctorFailed
  /\ sinceClose' = t.sinceClose
  /\ invoked' = t.invoked
  /\ peer' = t.peer

\* what the environment decides during one task: whether `new EventSourcePolyfill`
\* returns (ctorOk) and the value of Math.random(), in units of 1/RndScale (rnd)
Inputs == [ctorOk : BOOLEAN, rnd : {0}]

\* the constructor returns a handle
Opening == [ctorOk |-> TRUE, rnd |-> 0]

HasAnyListener(s) == DOMAIN s.listeners # {} \/ s.globalListeners # <<>>

(***************************************************************************)
(* Methods of SSEClient                                                    *)
(***************************************************************************)
clearIdleTimer(s) == [s EXCEPT !.idleTimer = NoTimer]

\* checkIdle() that arms the close timer with twice the idle timeout
checkIdle_lateClose(s) ==
  LET c == clearIdleTimer(s)
      idle == c.opts.idleTimeout
      lastActive == Max(c.lastActiveAt, c.lastMessageAt)
      remaining == idle - (c.now - lastActive)
  IN  IF idle = 0 THEN c
      ELSE IF c.es = NoHandle THEN c
      ELSE IF DOMAIN c.listeners = {} /\ c.globalListeners = <<>>
        THEN [c EXCEPT !.idleTimer = [kind |-> "close", at |-> c.now + 2 * idle]]
      ELSE IF remaining > 0
        THEN [c EXCEPT !.idleTimer = [kind |-> "check", at |-> c.now + remaining]]
      ELSE c

checkIdle(s) ==
  LET c == clearIdleTimer(s)
      idle == c.opts.idleTimeout
      lastActive == Max(c.lastActiveAt, c.lastMessageAt)
      remaining == idle - (c.now - lastActive)
  IN  IF idle = 0 THEN c
      ELSE IF c.es = NoHandle THEN c
      ELSE IF DOMAIN c.listeners = {} /\ c.globalListeners = <<>>
        THEN [c EXCEPT !.idleTimer = [kind |-> "close", at |-> c.now + idle]]
      ELSE IF remaining > 0
        THEN [c EXCEPT !.idleTimer = [kind |-> "check", at |-> c.now + remaining]]
      ELSE c

\* close() that leaves the idle timer armed
close_keepsIdleTimer(s) ==
  LET a == IF s.es # NoHandle
             THEN [s EXCEPT !.live = @ \ {s.es}, !.opened = @ \ {s.es},
                            !.es = NoHandle]
             ELSE s
      b == [a EXCEPT !.heartbeatIntervalId = 0]
  IN  [b EXCEPT !.connectionState = "disconnected", !.connectLock = FALSE,
                !.sinceClose = 0]

\* close() that drops the handle without calling es.close() on it
close_withoutEsClose(s) ==
  LET a == IF s.es # NoHandle THEN [s EXCEPT !.es = NoHandle] ELSE s
      b == [a EXCEPT !.heartbeatIntervalId = 0]
      c == clearIdleTimer(b)
  IN  [c EXCEPT !.connectionState = "disconnected", !.connectLock = FALSE,
                !.sinceClose = 0]

\* close() that leaves connectionState as it finds it
close_keepsState(s) ==
  LET a == IF s.es # NoHandle
             THEN [s EXCEPT !.live = @ \ {s.es}, !.opened = @ \ {s.es},
                            !.es = NoHandle]
             ELSE s
      b == [a EXCEPT !.heartbeatIntervalId = 0]
      c == clearIdleTimer(b)
  IN  [c EXCEPT !.connectLock = FALSE, !.sinceClose = 0]

close(s) ==
  LET a == IF s.es # NoHandle
             THEN [s EXCEPT !.live = @ \ {s.es}, !.opened = @ \ {s.es},
                            !.es = NoHandle]
             ELSE s
      b == [a EXCEPT !.heartbeatIntervalId = 0]
      c == clearIdleTimer(b)
  IN  [c EXCEPT !.connectionState = "disconnected", !.connectLock = FALSE,
                !.sinceClose = 0]

RECURSIVE GCD(_, _)
GCD(x, y) == IF y = 0 THEN x ELSE GCD(y, x % y)

\* a fraction in lowest terms
Reduced(n, d) == [n |-> n \div GCD(n, d), d |-> d \div GCD(n, d)]

\* b.baseMs * Math.pow(b.factor, attempt), exactly; factor is fn/fd
RECURSIVE ExpTerm(_, _)
ExpTerm(b, attempt) ==
  IF attempt = 0 THEN Reduced(b.baseMs, 1)
  ELSE LET e == ExpTerm(b, attempt - 1) IN Reduced(e.n * b.fn, e.d * b.fd)

\* Math.min(b.maxMs, b.baseMs * factor^attempt) is b.maxMs
Capped(b, attempt) ==
  LET e == ExpTerm(b, attempt) IN e.n >= b.maxMs * e.d

\* 1 + Math.random() * b.jitter; jitter is in percent, rnd in units of 1/RndScale
JitterFactor(b, rnd) == Reduced(100 * RndScale + rnd * b.jitter, 100 * RndScale)

\* Math.round(x) for x = n/d >= 0: halves round up
Round(n, d) == (2 * n + d) \div (2 * d)

\* the delay that starts again from baseMs once the exponential has reached maxMs
BackoffDelay_restartsAtCap(b, attempt, rnd) ==
  LET e == IF Capped(b, attempt) THEN Reduced(b.baseMs, 1) ELSE ExpTerm(b, attempt)
      j == JitterFactor(b, rnd)
  IN  Round(e.n * j.n, e.d * j.d)

\* the delay with the jitter added to it twice
BackoffDelay_jitterTwice(b, attempt, rnd) ==
  LET e == IF Capped(b, attempt) THEN Reduced(b.maxMs, 1) ELSE ExpTerm(b, attempt)
      j == Reduced(100 * RndScale + 2 * rnd * b.jitter, 100 * RndScale)
  IN  Round(e.n * j.n, e.d * j.d)

\* round(exp + exp * rnd * jitter) for exp = min(maxMs, baseMs * factor^attempt)
BackoffDelay(b, attempt, rnd) ==
  LET e == IF Capped(b, attempt) THEN Reduced(b.maxMs, 1) ELSE ExpTerm(b, attempt)
      j == JitterFactor(b, rnd)
  IN  Round(e.n * j.n, e.d * j.d)

\* scheduleReconnect() that reads the attempt number without counting the retry
scheduleReconnect_keepsCount(s, in) ==
  LET attempt == s.backoffAttempts
      delay == BackoffDelay(s.opts.reconnectBackoff, attempt, in.rnd)
  IN  [s EXCEPT !.retryTimers = InsertSorted(@, s.now + delay)]

scheduleReconnect(s, in) ==
  LET attempt == s.backoffAttempts
      delay == BackoffDelay(s.opts.reconnectBackoff, attempt, in.rnd)
  IN  [s EXCEPT !.backoffAttempts = attempt + 1,
                !.retryTimers = InsertSorted(@, s.now + delay)]

\* forceConnect() whose catch block does not release the lock
forceConnect_keepsLockOnThrow(s, in) ==
  IF s.es # NoHandle THEN s
  ELSE IF s.connectLock THEN s
  ELSE IF s.opts.url = NoUrl THEN s
  ELSE IF ~in.ctorOk
    THEN scheduleReconnect(
           [s EXCEPT !.connectionState = "error", !.connectLock = TRUE,
                     !.ctorFailed = @ + 1], in)
  ELSE [s EXCEPT !.connectLock = TRUE,
                 !.connectionState = "connecting",
                 !.es = s.constructed + 1,
                 !.live = @ \cup {s.constructed + 1},
                 !.constructed = @ + 1,
                 !.sinceClose = @ + 1,
                 !.heartbeatIntervalId = s.now + HeartbeatTickMs]

forceConnect(s, in) ==
  IF s.es # NoHandle THEN s
  ELSE IF s.connectLock THEN s
  ELSE IF s.opts.url = NoUrl THEN s
  ELSE IF ~in.ctorOk
    THEN scheduleReconnect(
           [s EXCEPT !.connectionState = "error", !.connectLock = FALSE,
                     !.ctorFailed = @ + 1], in)
  ELSE [s EXCEPT !.connectLock = TRUE,
                 !.connectionState = "connecting",
                 !.es = s.constructed + 1,
                 !.live = @ \cup {s.constructed + 1},
                 !.constructed = @ + 1,
                 !.sinceClose = @ + 1,
                 !.heartbeatIntervalId = s.now + HeartbeatTickMs]

\* maybeConnect() without the minimum interval between attempts
maybeConnect_noDebounce(s, in) ==
  IF s.es # NoHandle THEN s
  ELSE IF s.connectionState = "connecting" \/ s.connectLock THEN s
  ELSE IF ~HasAnyListener(s) THEN s
  ELSE forceConnect([s EXCEPT !.lastConnectAttempt = s.now,
                              !.connectAttempts = @ + 1], in)

\* maybeConnect() without the test for listeners
maybeConnect_eager(s, in) ==
  IF s.es # NoHandle THEN s
  ELSE IF s.connectionState = "connecting" \/ s.connectLock THEN s
  ELSE IF s.now - s.lastConnectAttempt < MinConnectInterval THEN s
  ELSE forceConnect([s EXCEPT !.lastConnectAttempt = s.now,
                              !.connectAttempts = @ + 1], in)

maybeConnect(s, in) ==
  IF s.es # NoHandle THEN s
  ELSE IF s.connectionState = "connecting" \/ s.connectLock THEN s
  ELSE IF s.now - s.lastConnectAttempt < MinConnectInterval THEN s
  ELSE IF ~HasAnyListener(s) THEN s
  ELSE forceConnect([s EXCEPT !.lastConnectAttempt = s.now,
                              !.connectAttempts = @ + 1], in)

\* reconnect() that keeps the attempt number of the failures before it
reconnect_inheritsBackoff(s, in) ==
  maybeConnect(close(s), in)

reconnect(s, in) ==
  maybeConnect([close(s) EXCEPT !.backoffAttempts = 0], in)

\* checkHeartbeat() that handles a timeout as the `error` listener handles an error
checkHeartbeat_viaBackoff(s, in) ==
  LET expected == s.opts.expectedPingInterval * 2
      since == Min(s.now - s.lastHeartbeatAt, s.now - s.lastMessageAt)
  IN  IF ~s.opts.withHeartbeat \/ s.es = NoHandle THEN s
      ELSE IF since > expected
        THEN scheduleReconnect(
               close([s EXCEPT !.connectionState = "error", !.connectLock = FALSE]), in)
      ELSE s

\* checkHeartbeat() that measures the silence since the last `ping` alone
checkHeartbeat_pingsOnly(s, in) ==
  LET expected == s.opts.expectedPingInterval * 2
      since == s.now - s.lastHeartbeatAt
  IN  IF ~s.opts.withHeartbeat \/ s.es = NoHandle THEN s
      ELSE IF since > expected THEN reconnect(s, in)
      ELSE s

\* the condition under which checkHeartbeat() declares the connection dead
heartbeatTimeout(s) ==
  /\ s.opts.withHeartbeat
  /\ s.es # NoHandle
  /\ Min(s.now - s.lastHeartbeatAt, s.now - s.lastMessageAt) > s.opts.expectedPingInterval * 2

checkHeartbeat(s, in) ==
  LET expected == s.opts.expectedPingInterval * 2
      since == Min(s.now - s.lastHeartbeatAt, s.now - s.lastMessageAt)
  IN  IF ~s.opts.withHeartbeat \/ s.es = NoHandle THEN s
      ELSE IF since > expected THEN reconnect(s, in)
      ELSE s


\* the capacity test with > in place of >=
tooManyListeners_offByOne(s) == Cardinality(DOMAIN s.listeners) > s.opts.maxListeners

\* postAndListen throws `Too many listeners`
tooManyListeners(s) == Cardinality(DOMAIN s.listeners) >= s.opts.maxListeners

listenersSet(s, requestId, cb) ==
  [s EXCEPT !.listeners = [r \in DOMAIN s.listeners \cup {requestId} |->
                             IF r = requestId THEN cb ELSE s.listeners[r]]]

listenersDelete(s, requestId) ==
  [s EXCEPT !.listeners = [r \in DOMAIN s.listeners \ {requestId} |-> s.listeners[r]]]

\* postAndListen that stores the entry only when fetch() has resolved
postAndListen_registersLate(s, requestId, cb, in) ==
  IF tooManyListeners(s) THEN s
  ELSE maybeConnect(s, in)

\* postAndListen up to the await of fetch(); it throws when the registry is full
postAndListen(s, requestId, cb, in) ==
  IF tooManyListeners(s) THEN s
  ELSE maybeConnect(listenersSet(s, requestId, cb), in)

\* subscriber callbacks that, called with a frame of their task, submit the next
\* task under the same correlation id: postAndListen(url, body, cb, { requestId })
\* runs up to its await inside the call
Resubscribers == {"h"}

\* the object after l.cb(msg) has been called
afterCallback(s, l, msg) ==
  LET a == [s EXCEPT !.invoked = Append(@,
              [via |-> "id", cb |-> l, rid |-> msg.requestId, event |-> msg.event])]
  IN  IF l \in Resubscribers THEN postAndListen(a, msg.requestId, l, Opening) ELSE a

\* a subscriber callback called with msg: it returns or it throws
Call(cb, throwers) == IF cb \in throwers THEN "throw" ELSE "return"

\* a call of the callback outside any try block: what the callback does propagates
tryCatch_rethrow(outcome) == outcome

\* try { cb(msg) } catch (_) {} : completes normally whatever the callback does
tryCatch(outcome) == "return"

\* globalListeners.forEach(cb => ...): the callbacks called, in order; the loop is
\* left when a call completes abruptly
RECURSIVE forEachGlobal(_, _, _)
forEachGlobal(q, msg, throwers) ==
  IF q = <<>> THEN <<>>
  ELSE <<[via |-> "broadcast", cb |-> Head(q), rid |-> msg.requestId,
          event |-> msg.event]>> \o
       (IF tryCatch(Call(Head(q), throwers)) = "throw" THEN <<>>
        ELSE forEachGlobal(Tail(q), msg, throwers))

\* dispatch() that hands a frame with an unregistered id to the broadcast set
dispatch_unregisteredToBroadcast(s, msg, throwers) ==
  IF msg.requestId # NoRid /\ msg.requestId \in DOMAIN s.listeners
    THEN LET l == s.listeners[msg.requestId]
             a == [s EXCEPT !.invoked = Append(@,
                     [via |-> "id", cb |-> l, rid |-> msg.requestId,
                      event |-> msg.event])]
         IN  IF tryCatch(Call(l, throwers)) = "throw" THEN a
             ELSE IF msg.event = "done" \/ msg.event = "error"
               THEN checkIdle([a EXCEPT !.listeners =
                      [r \in DOMAIN a.listeners \ {msg.requestId} |-> a.listeners[r]]])
             ELSE a
  ELSE [s EXCEPT !.invoked = @ \o forEachGlobal(s.globalListeners, msg, throwers)]

\* dispatch() that unsubscribes on `done` alone
dispatch_errorKeepsEntry(s, msg, throwers) ==
  IF msg.requestId # NoRid /\ msg.requestId \in DOMAIN s.listeners
    THEN LET l == s.listeners[msg.requestId]
             a == [s EXCEPT !.invoked = Append(@,
                     [via |-> "id", cb |-> l, rid |-> msg.requestId,
                      event |-> msg.event])]
         IN  IF tryCatch(Call(l, throwers)) = "throw" THEN a
             ELSE IF msg.event = "done"
               THEN checkIdle([a EXCEPT !.listeners =
                      [r \in DOMAIN a.listeners \ {msg.requestId} |-> a.listeners[r]]])
             ELSE a
  ELSE IF msg.requestId = NoRid
    THEN [s EXCEPT !.invoked = @ \o forEachGlobal(s.globalListeners, msg, throwers)]
  ELSE s

\* dispatch(msg); throwers are the callbacks that throw when they are called
dispatch(s, msg, throwers) ==
  IF msg.requestId # NoRid /\ msg.requestId \in DOMAIN s.listeners
    THEN LET l == s.listeners[msg.requestId]
             a == afterCallback(s, l, msg)
         IN  IF tryCatch(Call(l, throwers)) = "throw" THEN a
             ELSE IF msg.event = "done" \/ msg.event = "error"
               THEN checkIdle([a EXCEPT !.listeners =
                      [r \in DOMAIN a.listeners \ {msg.requestId} |-> a.listeners[r]]])
             ELSE a
  ELSE IF msg.requestId = NoRid
    THEN [s EXCEPT !.invoked = @ \o forEachGlobal(s.globalListeners, msg, throwers)]
  ELSE s

\* the `message` listener of forceConnect; ev.type is the event name listened to
\* onMessage that names a frame without `event` 'message', whatever type it came as
onMessage_ignoresFrameType(s, frame, throwers, in) ==
  LET a == [s EXCEPT !.lastMessageAt = s.now]
      data == IF frame.parse = "object"
                THEN [requestId |-> frame.requestId, event |-> frame.event]
                ELSE [requestId |-> NoRid, event |-> NoEvent]
      evtName == IF Truthy(data.event) THEN data.event ELSE "message"
      b == IF evtName = "ping" THEN [a EXCEPT !.lastHeartbeatAt = a.now] ELSE a
      c == IF frame.parse = "invalid" THEN a
           ELSE dispatch(b, [requestId |-> data.requestId, event |-> evtName], throwers)
  IN  checkHeartbeat(c, in)

onMessage(s, frame, throwers, in) ==
  LET a == [s EXCEPT !.lastMessageAt = s.now]
      data == IF frame.parse = "object"
                THEN [requestId |-> frame.requestId, event |-> frame.event]
                ELSE [requestId |-> NoRid, event |-> NoEvent]
      evtName == IF Truthy(data.event) THEN data.event ELSE a.opts.eventName
      b == IF evtName = "ping" THEN [a EXCEPT !.lastHeartbeatAt = a.now] ELSE a
      c == IF frame.parse = "invalid" THEN a
           ELSE dispatch(b, [requestId |-> data.requestId, event |-> evtName], throwers)
  IN  checkHeartbeat(c, in)

\* an `open` listener that leaves the lock set
onOpen_keepsLock(s) ==
  checkIdle([s EXCEPT !.connectionState = "connected",
                      !.backoffAttempts = 0, !.lastMessageAt = s.now,
                      !.lastHeartbeatAt = s.now])

\* the `open` listener of forceConnect
onOpen(s) ==
  checkIdle([s EXCEPT !.connectionState = "connected", !.connectLock = FALSE,
                      !.backoffAttempts = 0, !.lastMessageAt = s.now,
                      !.lastHeartbeatAt = s.now])

\* the `error` listener of forceConnect
onError(s, in) ==
  scheduleReconnect(
    close([s EXCEPT !.connectionState = "error", !.connectLock = FALSE]), in)

\* connect() that treats a missing endpoint as a failed construction
connect_retriesWithoutUrl(s, in) ==
  IF s.es # NoHandle THEN s
  ELSE IF s.opts.url = NoUrl
    THEN scheduleReconnect([s EXCEPT !.connectionState = "error"], in)
  ELSE forceConnect(s, in)

\* connect() that lets go of the handle it holds and opens another
connect_reopens(s, in) ==
  IF s.opts.url = NoUrl THEN s
  ELSE forceConnect([s EXCEPT !.es = NoHandle, !.connectLock = FALSE], in)

connect(s, in) ==
  IF s.es # NoHandle THEN s
  ELSE IF s.opts.url = NoUrl THEN s
  ELSE forceConnect(s, in)

\* the value connect() returns
connectResult(s) ==
  IF s.es # NoHandle THEN TRUE
  ELSE IF s.opts.url = NoUrl THEN FALSE
  ELSE TRUE

\* a failed request that tears the shared connection down with its entry
postFailed_closesConnection(s, requestId, notOk) ==
  close(listenersDelete(s, requestId))

\* postAndListen when fetch() rejects, or resolves with a response that is not ok
\* (the throw inside the try block runs the catch block as well)
postFailed(s, requestId, notOk) ==
  LET once == checkIdle(listenersDelete(s, requestId))
  IN  IF notOk THEN checkIdle(listenersDelete(once, requestId)) ELSE once

\* the unsubscribe closure postAndListen returns
unsubscribe(s, requestId) == checkIdle(listenersDelete(s, requestId))

onBroadcast(s, cb, in) ==
  maybeConnect([s EXCEPT !.globalListeners = SetAdd(@, cb)], in)

\* an unsubscribe closure that leaves the callback in the broadcast set
unsubscribeBroadcast_keepsCallback(s, cb) == checkIdle(s)

\* the closure onBroadcast returns
unsubscribeBroadcast(s, cb) ==
  checkIdle([s EXCEPT !.globalListeners = SetDelete(@, cb)])

updateConfig(s, url, in) ==
  LET needReconnect == url # NoUrl /\ url # s.opts.url
      a == [s EXCEPT !.opts.url = url]
  IN  IF needReconnect THEN reconnect(a, in) ELSE a

\* this._boundBump, run on every user activity event
boundBump(s, in) ==
  LET a == checkIdle([s EXCEPT !.lastActiveAt = s.now])
  IN  IF a.es = NoHandle /\ HasAnyListener(a) THEN maybeConnect(a, in) ELSE a

\* destroy() of a class that keeps its connection in module scope: the handle of
\* every instance is closed
destroy_closesOtherInstance(s) ==
  [close(s) EXCEPT !.activityBound = FALSE, !.globalListeners = << >>,
                   !.peer = IF @ = NoPeer THEN @ ELSE [@ EXCEPT !.obj = close(@)]]

destroy(s) ==
  [close(s) EXCEPT !.activityBound = FALSE, !.globalListeners = <<>>]


(***************************************************************************)
(* The state after construction                                            *)
(***************************************************************************)
NoFrame == [parse |-> "none", requestId |-> NoRid, event |-> NoEvent]

Task(op, ret, arg) == [op |-> op, ret |-> ret, arg |-> arg, frame |-> NoFrame]

\* new SSEClient(o), in an environment that goes along with n constructions;
\* due is NoIdleDue where the history of the idle close is kept
\* no idle close is due; the history of the idle close is not kept
NoIdleDue == [claim |-> 0, amended |-> 0]
Unobserved == [claim |-> -1, amended |-> -1]

NewInstance(o, n, due) ==
  /\ now = StartTime
  /\ opts = o
  /\ es = NoHandle
  /\ listeners = << >>
  /\ globalListeners = << >>
  /\ backoffAttempts = 0
  /\ idleTimer = NoTimer
  /\ lastActiveAt = StartTime
  /\ lastMessageAt = 0
  /\ lastHeartbeatAt = 0
  /\ heartbeatIntervalId = 0
  /\ connectionState = "disconnected"
  /\ connectLock = FALSE
  /\ connectAttempts = 0
  /\ lastConnectAttempt = 0
  /\ activityBound = TRUE
  /\ retryTimers = << >>
  /\ live = {}
  /\ opened = {}
  /\ constructed = 0
  /\ ctorFailed = 0
  /\ sinceClose = 0
  /\ pendingPosts = {}
  /\ unsubs = {}
  /\ bunsubs = {}
  /\ invoked = << >>
  /\ last = Task("new", "none", "")
  /\ idleDue = due
  /\ maxOpens = n

\* the only instance of the page
Constructed(o, n, due) == NewInstance(o, n, due) /\ peer = NoPeer

\* the bound on what the environment does in one behaviour
WithinBounds(t) ==
  t.constructed + t.ctorFailed
    + (IF t.peer = NoPeer THEN 0 ELSE t.peer.obj.constructed + t.peer.obj.ctorFailed)
    <= maxOpens

\* History of the idle close.  A task that removes the last listener while a handle
\* is held and idle closing is on makes the close due one idle duration later.
\* `claim`: the deadline stands until new interest is registered or the user is
\* active.  `amended`: a task that runs the idle check again without registering
\* interest (the open signal, another call of an unsubscribe closure, a failed
\* request) moves the deadline to one idle duration after that task.  A deadline
\* is dropped by the task after the one that closed the handle.
IdleDueAfter(pre, post, op) ==
  LET due == pre.now + pre.opts.idleTimeout
      removesLast == /\ op \in {"unsubscribe", "unsubscribeBroadcast"}
                     /\ HasAnyListener(pre)
                     /\ ~HasAnyListener(post)
                     /\ post.es # NoHandle
                     /\ pre.opts.idleTimeout # 0
      dropped == HasAnyListener(post) \/ op = "activity" \/ pre.es = NoHandle
      rechecked == /\ op \in {"open", "unsubscribe", "unsubscribeBroadcast", "postFailed"}
                   /\ post.es # NoHandle
  IN  IF idleDue = Unobserved THEN idleDue ELSE
      [claim   |-> IF removesLast THEN due
                   ELSE IF dropped THEN 0 ELSE idleDue.claim,
       amended |-> IF removesLast THEN due
                   ELSE IF dropped THEN 0
                   ELSE IF rechecked /\ idleDue.amended # 0 THEN due
                   ELSE idleDue.amended]

\* one task: the object after it, what it returned, and the caller's side.  That
\* the constructor throws is an input of the tasks that call it, of no other task.
Step(in, t, task, posts, closures, bclosures) ==
  \E post \in {t} :
    /\ WithinBounds(post)
    /\ in.ctorOk \/ post.ctorFailed > ctorFailed
    /\ Commit(post)
    /\ last' = task
    /\ idleDue' = IdleDueAfter(Cur, post, task.op)
    /\ pendingPosts' = posts
    /\ unsubs' = closures
    /\ bunsubs' = bclosures
    /\ now' = post.now
    /\ UNCHANGED maxOpens

\* a task that leaves the caller's closures and the requests in flight alone
Run(in, t, task) == Step(in, t, task, pendingPosts, unsubs, bunsubs)

\* the deadlines of the timers that are pending
Deadlines ==
  {retryTimers[i] : i \in 1..Len(retryTimers)}
    \cup (IF idleTimer.kind # "none" THEN {idleTimer.at} ELSE {})
    \cup (IF heartbeatIntervalId # 0 THEN {heartbeatIntervalId} ELSE {})

(***************************************************************************)
(* Calls of the caller                                                     *)
(***************************************************************************)
Connect(in) ==
  Run(in, connect(Cur, in),
      Task("connect", IF connectResult(Cur) THEN "true" ELSE "false", ""))

\* setTimeout(() => sse.connect(), i * pace): the next call of a paced series is
\* made `pace` ms after the one before it
PacedConnect(pace, in) ==
  /\ \A d \in Deadlines : now + pace <= d
  /\ LET s == [Cur EXCEPT !.now = @ + pace]
     IN  Run(in, connect(s, in),
             Task("connect", IF connectResult(s) THEN "true" ELSE "false", ""))

PostAndListen(requestId, cb, in) ==
  /\ requestId \notin pendingPosts
  /\ IF tooManyListeners(Cur)
       THEN Run(in, postAndListen(Cur, requestId, cb, in),
                Task("postAndListen", "threw", requestId))
       ELSE Step(in, postAndListen(Cur, requestId, cb, in),
                 Task("postAndListen", "pending", requestId),
                 pendingPosts \cup {requestId}, unsubs, bunsubs)

\* fetch() resolves with an ok response: postAndListen returns the handle
PostResolved(requestId) ==
  /\ requestId \in pendingPosts
  /\ Step(Opening, Cur, Task("postResolved", "handle", requestId),
          pendingPosts \ {requestId}, unsubs \cup {requestId}, bunsubs)

\* fetch() rejects (network error, abort by timeout) or the response is not ok
PostFailed(requestId, notOk) ==
  /\ requestId \in pendingPosts
  /\ Step(Opening, postFailed(Cur, requestId, notOk), Task("postFailed", "threw", requestId),
          pendingPosts \ {requestId}, unsubs, bunsubs)

Unsubscribe(requestId) ==
  /\ requestId \in unsubs
  /\ Run(Opening, unsubscribe(Cur, requestId), Task("unsubscribe", "none", requestId))

OnBroadcast(cb, in) ==
  Step(in, onBroadcast(Cur, cb, in), Task("onBroadcast", "closure", cb),
       pendingPosts, unsubs, bunsubs \cup {cb})

UnsubscribeBroadcast(cb) ==
  /\ cb \in bunsubs
  /\ Run(Opening, unsubscribeBroadcast(Cur, cb), Task("unsubscribeBroadcast", "none", cb))

Close == Run(Opening, close(Cur), Task("close", "none", ""))

Reconnect(in) == Run(in, reconnect(Cur, in), Task("reconnect", "none", ""))

UpdateConfig(url, in) ==
  Run(in, updateConfig(Cur, url, in), Task("updateConfig", "none", url))

Destroy == Run(Opening, destroy(Cur), Task("destroy", "none", ""))

(***************************************************************************)
(* Window events (attached until destroy)                                  *)
(***************************************************************************)
Activity(in) ==
  /\ activityBound
  /\ Run(in, boundBump(Cur, in), Task("activity", "none", ""))

Online(in) ==
  /\ activityBound
  /\ Run(in, reconnect(Cur, in), Task("online", "none", ""))

Offline ==
  /\ activityBound
  /\ Run(Opening, close(Cur), Task("offline", "none", ""))

(***************************************************************************)
(* Signals of the transport handle: `open` once, frames after it, `error`  *)
(* at any time; a closed handle is silent                                  *)
(***************************************************************************)
TransportOpen ==
  \E h \in live \ opened :
    Run(Opening, [onOpen(Cur) EXCEPT !.opened = @ \cup (live \cap {h})],
        Task("open", "none", ""))

TransportError(in) ==
  /\ live # {}
  /\ Run(in, onError(Cur, in), Task("sseError", "none", ""))

\* ret tells whether a callback that was called threw
TransportFrame(frame, throwers, in) ==
  /\ opened # {}
  /\ LET t == onMessage(Cur, frame, throwers, in)
         threw == \E i \in 1..Len(t.invoked) : t.invoked[i].cb \in throwers
         \* the requests of the tasks submitted by the callbacks called
         posted == {t.invoked[i].rid : i \in {j \in 1..Len(t.invoked) :
                      /\ t.invoked[j].via = "id"
                      /\ t.invoked[j].cb \in Resubscribers
                      /\ ~tooManyListeners(Cur)}}
     IN  Step(in, t, [op |-> "frame", ret |-> IF threw THEN "cbThrew" ELSE "none",
                  arg |-> frame.requestId, frame |-> frame],
              pendingPosts \cup posted, unsubs, bunsubs)

(***************************************************************************)
(* Timers                                                                  *)
(***************************************************************************)
IdleTimerFire ==
  /\ idleTimer.kind # "none"
  /\ idleTimer.at <= now
  /\ IF idleTimer.kind = "close"
       THEN Run(Opening, close(Cur), Task("idleClose", "none", ""))
       ELSE Run(Opening, checkIdle(Cur), Task("idleCheck", "none", ""))

HeartbeatTick(in) ==
  /\ heartbeatIntervalId # 0
  /\ heartbeatIntervalId <= now
  /\ Run(in, checkHeartbeat([Cur EXCEPT !.heartbeatIntervalId = @ + HeartbeatTickMs], in),
         Task("heartbeatTick", IF heartbeatTimeout(Cur) THEN "timeout" ELSE "none", ""))

RetryTimerFire(in) ==
  \E i \in 1..Len(retryTimers) :
    /\ retryTimers[i] <= now
    /\ Run(in, maybeConnect([Cur EXCEPT !.retryTimers = RemoveAt(@, i)], in),
           Task("backoff", "none", ""))

\* time passes up to t; a timer fires when it is due, so the clock never runs
\* past a pending deadline
AdvanceTo(t) ==
  /\ t > now
  /\ \A d \in Deadlines : t <= d
  /\ now' = t
  /\ invoked' = << >>
  /\ last' = Task("advance", "none", "")
  /\ UNCHANGED <<opts, es, listeners, globalListeners, backoffAttempts, idleTimer,
                 lastActiveAt, lastMessageAt, lastHeartbeatAt, heartbeatIntervalId,
                 connectionState, connectLock, connectAttempts, lastConnectAttempt,
                 activityBound, retryTimers, live, opened, constructed, ctorFailed,
                 sinceClose, pendingPosts, unsubs, bunsubs, idleDue, maxOpens, peer>>

\* by one quantum, or to the next deadline, within `ticks` quanta of construction
AdvanceWithin(ticks) ==
  \E t \in {now + Quantum} \cup Deadlines :
    /\ t <= StartTime + ticks * Quantum
    /\ AdvanceTo(t)

Advance == AdvanceWithin(MaxTicks)

(***************************************************************************)
(* Two instances on one page.  The variables hold the instance the next    *)
(* task runs on; `peer` holds the other one.  The clock is the page's.     *)
(***************************************************************************)
\* an instance at rest: its fields, timers and handles, and its caller's side
Saved(s, posts, closures, bclosures) ==
  [obj |-> [s EXCEPT !.peer = NoPeer, !.now = 0, !.invoked = << >>],
   pendingPosts |-> posts, unsubs |-> closures, bunsubs |-> bclosures]

\* the next task runs on the other instance
Switch ==
  /\ peer # NoPeer
  /\ Commit([peer.obj EXCEPT !.peer = Saved(Cur, pendingPosts, unsubs, bunsubs)])
  /\ pendingPosts' = peer.pendingPosts
  /\ unsubs' = peer.unsubs
  /\ bunsubs' = peer.bunsubs
  /\ last' = Task("switch", "none", "")
  /\ UNCHANGED <<now, idleDue, maxOpens>>

\* the deadlines of the other instance's timers
PeerDeadlines ==
  IF peer = NoPeer THEN {}
  ELSE {peer.obj.retryTimers[i] : i \in 1..Len(peer.obj.retryTimers)}
         \cup (IF peer.obj.idleTimer.kind # "none" THEN {peer.obj.idleTimer.at} ELSE {})
         \cup (IF peer.obj.heartbeatIntervalId # 0
                 THEN {peer.obj.heartbeatIntervalId} ELSE {})

\* time passes for both instances up to the next deadline, within `ticks` quanta
\* of construction
AdvancePage(ticks) ==
  \E t \in Deadlines \cup PeerDeadlines :
    /\ t <= StartTime + ticks * Quantum
    /\ \A d \in PeerDeadlines : t <= d
    /\ AdvanceTo(t)

(***************************************************************************)
(* Spec: the connection lifecycle with the clock and the idle and retry    *)
(* timers.  Interest is one broadcast callback: a registration reaches the *)
(* connection through maybeConnect alone, whichever registry it is made in.*)
(***************************************************************************)
Backoff1 == [baseMs |-> Quantum, maxMs |-> 2 * Quantum, fn |-> 2, fd |-> 1, jitter |-> 0]

SpecOptions ==
  [url : {NoUrl, "u1"},
   idleTimeout : {Quantum},
   eventName : {"notify"},
   withHeartbeat : {TRUE},
   expectedPingInterval : {Quantum},
   maxListeners : {1000},
   reconnectBackoff : {Backoff1}]

Init == \E o \in SpecOptions : Constructed(o, MaxOpens, Unobserved)

Next ==
  \/ \E in \in Inputs : Connect(in)
  \/ \E in \in Inputs : OnBroadcast("f", in)
  \/ UnsubscribeBroadcast("f")
  \/ Close
  \/ \E in \in Inputs : Reconnect(in)
  \/ Destroy
  \/ \E in \in Inputs : Activity(in)
  \/ \E in \in Inputs : Online(in)
  \/ Offline
  \/ TransportOpen
  \/ \E in \in Inputs : TransportError(in)
  \/ IdleTimerFire
  \/ \E in \in Inputs : RetryTimerFire(in)
  \/ Advance

Spec == Init /\ [][Next]_vars

(***************************************************************************)
(* SpecRegistry: registrations, their requests and their removal, against  *)
(* the capacity of the registry; the clock stands still.                   *)
(***************************************************************************)
RegistryOptions ==
  [url : {"u1"},
   idleTimeout : {Quantum},
   eventName : {"notify"},
   withHeartbeat : {TRUE},
   expectedPingInterval : {Quantum},
   maxListeners : {1, 2},
   reconnectBackoff : {Backoff1}]

\* the callback each task registers under its correlation id
CallbackOf == [r \in RequestIds |-> IF r = "r1" THEN "f" ELSE "g"]

InitRegistry == \E o \in RegistryOptions : Constructed(o, MaxOpens, Unobserved)

NextRegistry ==
  \/ Connect(Opening)
  \/ \E requestId \in RequestIds : PostAndListen(requestId, CallbackOf[requestId], Opening)
  \/ \E requestId \in RequestIds : PostResolved(requestId)
  \/ \E requestId \in RequestIds, notOk \in BOOLEAN : PostFailed(requestId, notOk)
  \/ \E requestId \in RequestIds : Unsubscribe(requestId)
  \/ OnBroadcast("f", Opening)
  \/ UnsubscribeBroadcast("f")
  \/ Close
  \/ TransportOpen

SpecRegistry == InitRegistry /\ [][NextRegistry]_vars

(***************************************************************************)
(* SpecDispatch: frames arriving on a connection that stays up, routed to  *)
(* the registry and the broadcast set; the clock stands still.             *)
(***************************************************************************)
DispatchOptions ==
  [url : {"u1"},
   idleTimeout : {Quantum},
   eventName : {"notify"},
   withHeartbeat : {TRUE},
   expectedPingInterval : {Quantum},
   maxListeners : {1000},
   reconnectBackoff : {Backoff1}]

\* the frames that differ in what onMessage does with them
Frames ==
  [parse : {"object"}, requestId : RequestIds \cup {NoRid}, event : PlainEvents]
    \cup [parse : {"nonobject", "invalid"}, requestId : {NoRid}, event : {NoEvent}]

\* the callbacks that throw when they are called
Throwers == {{}, {"f"}, Callbacks}

InitDispatch == \E o \in DispatchOptions : Constructed(o, MaxOpens, Unobserved)

NextDispatch ==
  \/ \E requestId \in RequestIds : PostAndListen(requestId, CallbackOf[requestId], Opening)
  \/ \E requestId \in RequestIds : PostResolved(requestId)
  \/ \E requestId \in RequestIds : Unsubscribe(requestId)
  \/ \E cb \in Callbacks : OnBroadcast(cb, Opening)
  \/ \E cb \in Callbacks : UnsubscribeBroadcast(cb)
  \/ TransportOpen
  \/ \E frame \in Frames, throwers \in Throwers :
       TransportFrame(frame, throwers, Opening)

SpecDispatch == InitDispatch /\ [][NextDispatch]_vars

\* an endpoint, and the idle timeout one quantum
EndpointOptions ==
  [url : {"u1"},
   idleTimeout : {Quantum},
   eventName : {"notify"},
   withHeartbeat : {TRUE},
   expectedPingInterval : {Quantum},
   maxListeners : {1000},
   reconnectBackoff : {Backoff1}]

(***************************************************************************)
(* SpecIdle: the idle policy.  Interest is one correlation id and one      *)
(* broadcast callback; the handle opens and stays up until the idle timer  *)
(* closes it.                                                              *)
(***************************************************************************)
InitIdle == \E o \in EndpointOptions : Constructed(o, MaxOpens, NoIdleDue)

NextIdle ==
  \/ Connect(Opening)
  \/ PostAndListen("r1", "f", Opening)
  \/ PostResolved("r1")
  \/ \E notOk \in BOOLEAN : PostFailed("r1", notOk)
  \/ Unsubscribe("r1")
  \/ OnBroadcast("g", Opening)
  \/ UnsubscribeBroadcast("g")
  \/ Activity(Opening)
  \/ TransportOpen
  \/ IdleTimerFire
  \/ AdvanceWithin(IdleTicks)

SpecIdle == InitIdle /\ [][NextIdle]_vars

(***************************************************************************)
(* SpecDebounce: a series of connect() calls at a fixed pace, with the     *)
(* transport signalling between the calls (test 6 of the test script).     *)
(***************************************************************************)
\* connect() calls of the paced series
PacedCalls == 10
\* spacing of the calls (ms): a tenth of the minimum interval
PaceMs == MinConnectInterval \div PacedCalls

\* calls of the series made so far
pacedCallsMade == (now - StartTime) \div PaceMs

InitDebounce == \E o \in EndpointOptions : Constructed(o, PacedCalls, Unobserved)

NextDebounce ==
  \/ /\ pacedCallsMade < PacedCalls
     /\ \E in \in Inputs : PacedConnect(PaceMs, in)
  \/ TransportOpen
  \/ \E in \in Inputs : TransportError(in)

SpecDebounce == InitDebounce /\ [][NextDebounce]_vars

(***************************************************************************)
(* SpecHeartbeat: the periodic heartbeat check on a connection with one    *)
(* broadcast listener.  Time passes from one timer deadline to the next;   *)
(* the server sends `ping` frames or stays silent.                         *)
(***************************************************************************)
\* an endpoint, and idle closing switched off
NoIdleOptions ==
  [url : {"u1"},
   idleTimeout : {0},
   eventName : {"notify"},
   withHeartbeat : {TRUE},
   expectedPingInterval : {Quantum},
   maxListeners : {1000},
   reconnectBackoff : {Backoff1}]

PingFrame == [parse |-> "object", requestId |-> NoRid, event |-> "ping"]

\* to the next deadline, within `beats` heartbeat periods of construction
AdvanceToDeadline(beats) ==
  \E t \in Deadlines :
    /\ t <= StartTime + beats * HeartbeatTickMs
    /\ AdvanceTo(t)

InitHeartbeat == \E o \in NoIdleOptions : Constructed(o, MaxOpens, Unobserved)

NextHeartbeat ==
  \/ \E in \in Inputs : Connect(in)
  \/ \E in \in Inputs : OnBroadcast("f", in)
  \/ UnsubscribeBroadcast("f")
  \/ TransportOpen
  \/ TransportFrame(PingFrame, {}, Opening)
  \/ \E in \in Inputs : TransportError(in)
  \/ \E in \in Inputs : HeartbeatTick(in)
  \/ \E in \in Inputs : RetryTimerFire(in)
  \/ AdvanceToDeadline(MaxBeats)

SpecHeartbeat == InitHeartbeat /\ [][NextHeartbeat]_vars

(***************************************************************************)
(* SpecRetry: failures of the connection and the retries after them, on a  *)
(* client that is never closed by its caller.  The connection is opened by *)
(* connect() or by a broadcast listener.                                   *)
(***************************************************************************)
InitRetry == \E o \in NoIdleOptions : Constructed(o, MaxOpens, Unobserved)

NextRetry ==
  \/ \E in \in Inputs : Connect(in)
  \/ \E in \in Inputs : OnBroadcast("f", in)
  \/ UnsubscribeBroadcast("f")
  \/ TransportOpen
  \/ \E in \in Inputs : TransportError(in)
  \/ \E in \in Inputs : RetryTimerFire(in)
  \/ Advance

SpecRetry == InitRetry /\ [][NextRetry]_vars

(***************************************************************************)
(* SpecTeardown: destroy() on a client with a task listener, a broadcast   *)
(* listener, a connection and its timers.  The caller makes no call after  *)
(* destroy(); requests in flight, the transport and the timers go on.      *)
(***************************************************************************)
\* destroy() has run: it alone detaches the window listeners
Destroyed == ~activityBound

InitTeardown == \E o \in NoIdleOptions : Constructed(o, MaxOpens, Unobserved)

NextTeardown ==
  \/ ~Destroyed /\ \E in \in Inputs : PostAndListen("r1", "f", in)
  \/ PostResolved("r1")
  \/ \E notOk \in BOOLEAN : PostFailed("r1", notOk)
  \/ ~Destroyed /\ \E in \in Inputs : OnBroadcast("g", in)
  \/ ~Destroyed /\ Destroy
  \/ \E in \in Inputs : Online(in)
  \/ TransportOpen
  \/ \E in \in Inputs : TransportError(in)
  \/ \E in \in Inputs : RetryTimerFire(in)
  \/ Advance

SpecTeardown == InitTeardown /\ [][NextTeardown]_vars

(***************************************************************************)
(* SpecIsolation: two instances constructed with the same configuration,   *)
(* each with its own caller, connection and timers (test 7 of the test     *)
(* script).                                                                *)
(***************************************************************************)
InitIsolation ==
  \E o \in NoIdleOptions :
    /\ NewInstance(o, MaxOpens, Unobserved)
    /\ peer = Saved(Beside(NoPeer), {}, {}, {})

NextIsolation ==
  \/ Connect(Opening)
  \/ OnBroadcast("f", Opening)
  \/ Close
  \/ Destroy
  \/ TransportOpen
  \/ TransportFrame(PingFrame, {}, Opening)
  \/ TransportError(Opening)
  \/ RetryTimerFire(Opening)
  \/ AdvancePage(MaxTicks)
  \/ Switch

SpecIsolation == InitIsolation /\ [][NextIsolation]_vars

(***************************************************************************)
(* SpecNaming: the event name a frame is dispatched under, on a connection *)
(* that listens to the type `notify` and stays up (testEventTypeFallback). *)
(***************************************************************************)
\* payloads with the `event` field absent, empty or set, and JSON that is no object
NamedFrames ==
  [parse : {"object"}, requestId : {"r1", NoRid},
   event : {NoEvent, EmptyEvent, "progress", "ping"}]
    \cup [parse : {"nonobject"}, requestId : {NoRid}, event : {NoEvent}]

InitNaming == \E o \in DispatchOptions : Constructed(o, MaxOpens, Unobserved)

NextNaming ==
  \/ PostAndListen("r1", "f", Opening)
  \/ PostResolved("r1")
  \/ Unsubscribe("r1")
  \/ \E cb \in Callbacks : OnBroadcast(cb, Opening)
  \/ \E cb \in Callbacks : UnsubscribeBroadcast(cb)
  \/ TransportOpen
  \/ \E frame \in NamedFrames : TransportFrame(frame, {}, Opening)

SpecNaming == InitNaming /\ [][NextNaming]_vars

(***************************************************************************)
(* SpecDefaults: clients constructed without `withHeartbeat` and without   *)
(* `maxListeners`; the constructor fills them in.  One broadcast listener, *)
(* a server that pings or stays silent, and the heartbeat check.           *)
(***************************************************************************)
\* the defaults the constructor spreads the caller's options over
DefaultOptions ==
  [url |-> NoUrl,
   idleTimeout |-> 30000,
   eventName |-> "message",
   withHeartbeat |-> TRUE,
   expectedPingInterval |-> 15000,
   maxListeners |-> 1000,
   reconnectBackoff |-> [baseMs |-> 1000, maxMs |-> 15000, fn |-> 9, fd |-> 5,
                         jitter |-> 30]]

\* this.opts = { ...defaults, ...opts }
WithDefaults(given) ==
  [k \in DOMAIN DefaultOptions |->
     IF k \in DOMAIN given THEN given[k] ELSE DefaultOptions[k]]

\* what the callers pass: the endpoint alone, or the endpoint and short intervals
GivenOptions ==
  {[url |-> "u1"],
   [url |-> "u1", idleTimeout |-> 0, expectedPingInterval |-> Quantum]}

InitDefaults ==
  \E given \in GivenOptions : Constructed(WithDefaults(given), MaxOpens, Unobserved)

NextDefaults ==
  \/ Connect(Opening)
  \/ OnBroadcast("f", Opening)
  \/ UnsubscribeBroadcast("f")
  \/ TransportOpen
  \/ TransportFrame(PingFrame, {}, Opening)
  \/ HeartbeatTick(Opening)
  \/ AdvanceToDeadline(MaxBeats)

SpecDefaults == InitDefaults /\ [][NextDefaults]_vars

(***************************************************************************)
(* SpecBackoff: the delays scheduleReconnect computes, for a series of     *)
(* failed and successful opens under several backoff configurations and    *)
(* random draws; the clock stands still, so a pending retry's deadline is  *)
(* `now` plus its delay.                                                   *)
(***************************************************************************)
\* the default; the quick one of the other specifications; README's fixed 2 s;
\* and one whose maxMs * (1 + jitter) is no whole number of milliseconds
BackoffConfigs ==
  {DefaultOptions.reconnectBackoff,
   Backoff1,
   [baseMs |-> 2000, maxMs |-> 2000, fn |-> 1, fd |-> 1, jitter |-> 0],
   [baseMs |-> 51, maxMs |-> 102, fn |-> 2, fd |-> 1, jitter |-> 30]}

\* Math.random(): the least value and the greatest
Rnds == {0, RndScale - 1}

BackoffInputs == [ctorOk : BOOLEAN, rnd : Rnds]

BackoffOptions ==
  [url : {"u1"},
   idleTimeout : {0},
   eventName : {"notify"},
   withHeartbeat : {TRUE},
   expectedPingInterval : {Quantum},
   maxListeners : {1000},
   reconnectBackoff : BackoffConfigs]

InitBackoff == \E o \in BackoffOptions : Constructed(o, MaxAttempts, Unobserved)

NextBackoff ==
  \/ \E in \in BackoffInputs : Connect(in)
  \/ TransportOpen
  \/ \E in \in BackoffInputs : TransportError(in)

SpecBackoff == InitBackoff /\ [][NextBackoff]_vars

(***************************************************************************)
(* SpecReconnect: the attempt number of the backoff over failed            *)
(* constructions, error signals, opens, close() and reconnect() calls,     *)
(* under the quick backoff and under the default one.                      *)
(***************************************************************************)
ReconnectOptions ==
  [url : {"u1"},
   idleTimeout : {0},
   eventName : {"notify"},
   withHeartbeat : {TRUE},
   expectedPingInterval : {Quantum},
   maxListeners : {1000},
   reconnectBackoff : {Backoff1, DefaultOptions.reconnectBackoff}]

InitReconnect == \E o \in ReconnectOptions : Constructed(o, MaxRetries, Unobserved)

NextReconnect ==
  \/ \E in \in Inputs : Connect(in)
  \/ \E in \in Inputs : OnBroadcast("f", in)
  \/ \E in \in Inputs : Reconnect(in)
  \/ Close
  \/ TransportOpen
  \/ \E in \in Inputs : TransportError(in)
  \/ \E in \in Inputs : RetryTimerFire(in)
  \/ Advance

SpecReconnect == InitReconnect /\ [][NextReconnect]_vars

(***************************************************************************)
(* SpecWatchdog: the heartbeat check on a connection with one broadcast    *)
(* listener, run by the 5 s interval and after every frame.  The clock     *)
(* advances by quanta; the server sends pings, other frames, text that is  *)
(* no JSON, or nothing; the handle opens early, late or not at all.        *)
(***************************************************************************)
WatchFrames ==
  {PingFrame,
   [parse |-> "object", requestId |-> NoRid, event |-> "progress"],
   [parse |-> "nonobject", requestId |-> NoRid, event |-> NoEvent],
   [parse |-> "invalid", requestId |-> NoRid, event |-> NoEvent]}

InitWatchdog == \E o \in NoIdleOptions : Constructed(o, MaxOpens, Unobserved)

NextWatchdog ==
  \/ OnBroadcast("f", Opening)
  \/ TransportOpen
  \/ \E frame \in WatchFrames : TransportFrame(frame, {}, Opening)
  \/ HeartbeatTick(Opening)
  \/ AdvanceWithin(WatchTicks)

SpecWatchdog == InitWatchdog /\ [][NextWatchdog]_vars

(***************************************************************************)
(* SpecResubscribe: tasks whose callback submits the next task under the   *)
(* same correlation id when a frame arrives, beside a task whose callback  *)
(* only takes the frame.                                                   *)
(***************************************************************************)
\* r1's callback resubscribes, r2's does not
ChainedCallbackOf == [r \in RequestIds |-> IF r = "r1" THEN "h" ELSE "f"]

\* frames of the two tasks
TaskFrames == [parse : {"object"}, requestId : RequestIds, event : PlainEvents]

InitResubscribe == \E o \in DispatchOptions : Constructed(o, MaxOpens, Unobserved)

NextResubscribe ==
  \/ \E requestId \in RequestIds :
       PostAndListen(requestId, ChainedCallbackOf[requestId], Opening)
  \/ \E requestId \in RequestIds : PostResolved(requestId)
  \/ \E requestId \in RequestIds : Unsubscribe(requestId)
  \/ TransportOpen
  \/ \E frame \in TaskFrames : TransportFrame(frame, {}, Opening)

SpecResubscribe == InitResubscribe /\ [][NextResubscribe]_vars

(***************************************************************************)
(* Properties                                                              *)
(***************************************************************************)
\* the event name dispatch sees for a frame: data.event, else the type listened to
EventNameOf(frame) ==
  IF frame.parse = "object" /\ Truthy(frame.event) THEN frame.event ELSE opts.eventName

\* C1: at most one transport handle is live (constructed and not yet closed) in
\* every reachable state: the live handles are exactly the handle held; a task
\* constructs at most one handle, and when it does no handle constructed before
\* is live after it; a handle the controller stops holding has been closed.
C1_SingleLiveHandle ==
  /\ live = {}
  /\ [][/\ Cardinality(live') <= 1
        /\ live' = (IF es' = NoHandle THEN {} ELSE {es'})
        /\ constructed' > constructed
             => constructed' = constructed + 1 /\ live' = {constructed'}
        /\ es' # es /\ es # NoHandle => es \notin live']_vars

\* a second handle is held, constructed after the first one was closed
C1_Witness == es = 2 /\ live = {2} /\ constructed = 2

\* C2: with no close in between, calls of connect() and maybeConnect (onBroadcast,
\* activity) in any order construct at most one transport handle; connect() while
\* a handle is held returns true and leaves the held handle the same.
C2_ConnectIdempotent ==
  /\ sinceClose = 0
  /\ [][/\ sinceClose' <= 1
        /\ last'.op \in {"connect", "onBroadcast", "activity"} /\ es # NoHandle
             => es' = es /\ live' = live /\ constructed' = constructed
        /\ last'.op = "connect" /\ es # NoHandle => last'.ret = "true"]_vars

\* connect() was called on the open connection and returned true
C2_Witness ==
  /\ last.op = "connect"
  /\ last.ret = "true"
  /\ connectionState = "connected"
  /\ constructed = 1

\* C3: on a fresh instance with an endpoint, after calls of connect() and
\* registrations of interest with no close in between (the one handle constructed
\* is still connecting), connectAttempts is exactly 1.
C3_AttemptCounterIsOne ==
  /\ last.op \in {"connect", "onBroadcast"}
  /\ opts.url # NoUrl
  /\ constructed = 1
  /\ sinceClose = 1
  /\ ctorFailed = 0
  /\ connectionState = "connecting"
  => connectAttempts = 1

\* C4: when the idle timer fires and closes the handle, the registry and the
\* broadcast set are both empty.
C4_IdleCloseOnlyWithoutInterest ==
  last.op = "idleClose" => ~HasAnyListener(Cur)

\* C5 as stated: after the last listener is removed while a handle is held and
\* the idle timeout is not zero, the handle is closed within the idle duration of
\* the removal, unless interest is registered or the user is active before.
C5_ClosedWithinIdleOfRemoval ==
  idleDue.claim # 0 /\ es # NoHandle => now <= idleDue.claim

\* C5 amended: the handle is closed within the idle duration of the last run of
\* the idle check without interest: the removal, or after it the open signal,
\* another call of an unsubscribe closure or a failed request.
C5_ClosedWithinIdleOfLastCheck ==
  idleDue.amended # 0 /\ es # NoHandle => now <= idleDue.amended

\* the idle timer closed the handle when the close was due
C5_Witness ==
  /\ idleDue.amended # 0
  /\ now = idleDue.amended
  /\ last.op = "idleClose"
  /\ es = NoHandle

\* C6: 10 calls of connect() at 50 ms spacing construct fewer than 5 transport
\* handles, whatever the transport signals between them.
C6_PacedConnectsDebounced ==
  pacedCallsMade = PacedCalls => constructed < 5

\* C7: a frame with a registered correlation id invokes that one callback once and
\* no broadcast callback; a frame without correlation id invokes every registered
\* broadcast callback once, in order, and no callback of the registry; a frame with
\* an unregistered correlation id invokes nothing.
C7_ExclusiveRouting ==
  [][last'.op = "frame" /\ last'.frame.parse # "invalid" =>
       LET rid == last'.frame.requestId
       IN  IF rid # NoRid /\ rid \in DOMAIN listeners
             THEN /\ Len(invoked') = 1
                  /\ invoked'[1].via = "id"
                  /\ invoked'[1].cb = listeners[rid]
                  /\ invoked'[1].rid = rid
           ELSE IF rid = NoRid
             THEN /\ Len(invoked') = Len(globalListeners)
                  /\ \A i \in 1..Len(invoked') :
                       /\ invoked'[i].via = "broadcast"
                       /\ invoked'[i].cb = globalListeners[i]
           ELSE invoked' = << >>]_vars

\* a frame for r1 called r1's callback alone while two broadcast callbacks are registered
C7_Witness ==
  /\ last.op = "frame"
  /\ last.frame.requestId = "r1"
  /\ Len(invoked) = 1
  /\ invoked[1].via = "id"
  /\ Len(globalListeners) = 2

C9_CapacityGuard ==
  [][last'.op = "postAndListen" /\ Cardinality(DOMAIN listeners) >= opts.maxListeners
       => /\ last'.ret = "threw"
          /\ UNCHANGED <<listeners, connectionState, es, live, constructed,
                         connectLock, connectAttempts, lastConnectAttempt,
                         idleTimer, retryTimers, heartbeatIntervalId,
                         pendingPosts>>]_vars

\* the call for r2 threw on a full registry while no handle is held
C9_Witness ==
  /\ last.op = "postAndListen"
  /\ last.ret = "threw"
  /\ last.arg = "r2"
  /\ DOMAIN listeners = {"r1"}
  /\ es = NoHandle

\* C10: a frame during whose dispatch a callback throws leaves the callbacks
\* invoked, the registry, the broadcast set, the connection state, the handle, the
\* lock and the timers as the same frame does when every callback returns.
C10_ThrowingCallbackContained ==
  [][last'.op = "frame" /\ last'.ret = "cbThrew" =>
       \E t \in {onMessage(Cur, last'.frame, {}, Opening)} :
         /\ invoked' = t.invoked
         /\ listeners' = t.listeners
         /\ globalListeners' = t.globalListeners
         /\ connectionState' = t.connectionState
         /\ es' = t.es
         /\ connectLock' = t.connectLock
         /\ idleTimer' = t.idleTimer
         /\ retryTimers' = t.retryTimers]_vars

\* the first broadcast callback threw and the second was still called
C10_Witness ==
  /\ last.op = "frame"
  /\ last.ret = "cbThrew"
  /\ Len(invoked) = 2
  /\ invoked[1].cb = "f"
  /\ invoked[2].cb = "g"

\* C11: connect() without an endpoint and without a handle returns false and
\* changes nothing: no handle is constructed, state, lock, attempt counter and
\* backoff counter stay as they are and no retry timer is scheduled.
C11_ConnectWithoutUrl ==
  [][last'.op = "connect" /\ opts.url = NoUrl /\ es = NoHandle
       => /\ last'.ret = "false"
          /\ UNCHANGED <<es, live, constructed, ctorFailed, connectionState,
                         connectLock, connectAttempts, lastConnectAttempt,
                         backoffAttempts, retryTimers, idleTimer,
                         heartbeatIntervalId, listeners, globalListeners>>]_vars

\* connect() returned false although a broadcast callback is registered
C11_Witness ==
  /\ last.op = "connect"
  /\ last.ret = "false"
  /\ opts.url = NoUrl
  /\ globalListeners # << >>
  /\ es = NoHandle

\* C12: whenever connect() returns true a transport handle exists on return and
\* the state is connecting or connected.
C12_TrueMeansHandle ==
  last.op = "connect" /\ last.ret = "true"
    => es # NoHandle /\ connectionState \in {"connecting", "connected"}

\* C13: a task other than connect() calls the transport constructor only with a
\* listener registered: reconnect(), an activity pulse, an online pulse and a
\* backoff retry open nothing while the registry and the broadcast set are empty.
C13_LazyConnection ==
  [][/\ constructed' + ctorFailed' > constructed + ctorFailed /\ last'.op # "connect"
          => DOMAIN listeners' # {} \/ globalListeners' # << >>
     /\ last'.op \in {"reconnect", "activity", "online", "backoff"}
          /\ ~HasAnyListener(Cur)
          => /\ constructed' = constructed /\ ctorFailed' = ctorFailed
             /\ es' \in {es, NoHandle} /\ live' \subseteq live]_vars

\* the backoff retry after an error on a connection opened by connect() fired
\* without listeners and opened nothing
C13_Witness ==
  /\ last.op = "backoff"
  /\ ~HasAnyListener(Cur)
  /\ constructed = 1
  /\ es = NoHandle
  /\ connectAttempts = 0

\* C14: after reconnect() (called directly or by an online pulse) with an endpoint
\* configured and a listener registered, in an environment whose constructor never
\* threw, a handle exists.
C14_ReconnectReopens ==
  /\ last.op \in {"reconnect", "online"}
  /\ opts.url # NoUrl
  /\ HasAnyListener(Cur)
  /\ ctorFailed = 0
  => es # NoHandle

\* C17: after close() and after destroy() no timer is outstanding: no heartbeat
\* tick, no idle timer and no backoff retry timer.
C17_CloseCancelsTimers ==
  last.op \in {"close", "destroy"}
    => heartbeatIntervalId = 0 /\ idleTimer = NoTimer /\ retryTimers = << >>

\* C20: after close(reason), whoever called it, no handle is held, the state is
\* disconnected, the lock is released, the heartbeat tick and the idle timer are
\* cancelled and the registry and the broadcast set are as before; close() called
\* again changes nothing.
C20_CloseContract ==
  [][last'.op \in {"close", "offline", "idleClose"}
       => /\ es' = NoHandle
          /\ live' = {}
          /\ connectionState' = "disconnected"
          /\ connectLock' = FALSE
          /\ heartbeatIntervalId' = 0
          /\ idleTimer' = NoTimer
          /\ listeners' = listeners
          /\ globalListeners' = globalListeners
          /\ close(Cur)' = Cur'
          /\ close(close(Cur)) = close(Cur)]_vars

\* close() closed the handle of a client with a listener
C20_Witness ==
  /\ last.op = "close"
  /\ HasAnyListener(Cur)
  /\ constructed = 1
  /\ sinceClose = 0
  /\ opened = {}
  /\ connectAttempts = 1
  /\ es = NoHandle


C16_FailureIsRetried ==
  es = NoHandle /\ constructed + ctorFailed > 0 => retryTimers # << >>

\* C18: once destroy() has run, with no call of the caller after it, no transport
\* handle is constructed: none is held in any later state.
C18_DestroyIsPermanent ==
  Destroyed => es = NoHandle /\ live = {}

\* C19: after destroy() the registry and the broadcast set are both empty.
C19_DestroyRemovesListeners ==
  last.op = "destroy" => DOMAIN listeners = {} /\ globalListeners = << >>


\* C21: of two instances with the same configuration, every task that runs on one
\* (connect, close, destroy, a registration, a transport signal, a frame, a timer
\* firing) leaves every state variable of the other unchanged, and each instance
\* finds its handle, registry, broadcast set and counters as it left them.
C21_InstanceIsolation ==
  [][/\ last'.op # "switch" => peer' = peer
     /\ last'.op = "switch"
          => /\ peer' = Saved(Cur, pendingPosts, unsubs, bunsubs)
             /\ Saved(Cur, pendingPosts, unsubs, bunsubs)' = peer]_vars

\* one instance was destroyed while the other holds an open connection and a
\* broadcast listener
C21_Witness ==
  /\ last.op = "destroy"
  /\ es = NoHandle
  /\ constructed = 1
  /\ peer # NoPeer
  /\ peer.obj.es # NoHandle
  /\ peer.obj.connectionState = "connected"
  /\ peer.obj.globalListeners # << >>


\* C22: when the request of postAndListen fails (fetch rejects or the response is
\* not ok) the entry registered for it is removed and the call rejects; the handle,
\* the connection state, the lock, the heartbeat interval and the retry timers are
\* as before the failure, and every other listener stays registered.
C22_PostFailureLeavesConnection ==
  [][last'.op = "postFailed"
       => /\ last'.ret = "threw"
          /\ last'.arg \notin DOMAIN listeners'
          /\ DOMAIN listeners' = DOMAIN listeners \ {last'.arg}
          /\ \A r \in DOMAIN listeners' : listeners'[r] = listeners[r]
          /\ globalListeners' = globalListeners
          /\ UNCHANGED <<es, live, opened, constructed, ctorFailed, connectionState,
                         connectLock, heartbeatIntervalId, retryTimers,
                         backoffAttempts, connectAttempts>>]_vars

\* a request failed on an open connection that another task listens on
C22_Witness ==
  /\ last.op = "postFailed"
  /\ last.arg \notin DOMAIN listeners
  /\ DOMAIN listeners # {}
  /\ es # NoHandle
  /\ connectionState = "connected"


\* C23: when an unsubscribe closure returns, its correlation id is out of the
\* registry (its callback out of the broadcast set); only postAndListen for that id
\* (onBroadcast for that callback) puts it back; and a frame invokes only callbacks
\* that are registered when it is delivered, a registry callback only for the
\* frame's own correlation id.  So no frame delivered after the unsubscribe invokes
\* the callback until it is registered again.
C23_UnsubscribeImmediate ==
  [][/\ last'.op = "unsubscribe" => last'.arg \notin DOMAIN listeners'
     /\ last'.op = "unsubscribeBroadcast" => last'.arg \notin SetElems(globalListeners')
     /\ \A r \in DOMAIN listeners' \ DOMAIN listeners :
          last'.op = "postAndListen" /\ last'.arg = r
     /\ \A cb \in SetElems(globalListeners') \ SetElems(globalListeners) :
          last'.op = "onBroadcast" /\ last'.arg = cb
     /\ last'.op = "frame"
          => \A i \in 1..Len(invoked') :
               IF invoked'[i].via = "id"
                 THEN /\ invoked'[i].rid = last'.frame.requestId
                      /\ invoked'[i].rid \in DOMAIN listeners
                      /\ invoked'[i].cb = listeners[invoked'[i].rid]
                 ELSE invoked'[i].cb \in SetElems(globalListeners)]_vars

\* a broadcast frame delivered after f was unsubscribed called g alone
C23_Witness ==
  /\ last.op = "frame"
  /\ last.frame.requestId = NoRid
  /\ last.frame.parse = "object"
  /\ "f" \in bunsubs
  /\ globalListeners = <<"g">>
  /\ Len(invoked) = 1
  /\ invoked[1].cb = "g"


\* C24 as stated: a frame whose payload has no `event` field is dispatched under the
\* type the frame came as, a frame that carries `event` under that value, with its
\* correlation id passed through.
C24_EventFieldDecides ==
  last.op = "frame" /\ last.frame.parse = "object"
    => \A i \in 1..Len(invoked) :
         /\ invoked[i].event = (IF last.frame.event = NoEvent THEN opts.eventName
                                ELSE last.frame.event)
         /\ invoked[i].rid = last.frame.requestId

\* C24 amended: a frame whose payload has no `event` field, or a falsy one (the
\* empty string), is dispatched under the type the frame came as; a frame with a
\* truthy `event` under that value; the correlation id is passed through.
C24_TruthyEventDecides ==
  last.op = "frame" /\ last.frame.parse = "object"
    => \A i \in 1..Len(invoked) :
         /\ invoked[i].event = (IF Truthy(last.frame.event) THEN last.frame.event
                                ELSE opts.eventName)
         /\ invoked[i].rid = last.frame.requestId

\* a frame for r1 without `event` reached r1's callback as a `notify` event
C24_Witness ==
  /\ last.op = "frame"
  /\ last.frame.parse = "object"
  /\ last.frame.event = NoEvent
  /\ last.frame.requestId = "r1"
  /\ Len(invoked) = 1
  /\ invoked[1].event = "notify"
  /\ invoked[1].via = "id"


\* C25: a client constructed without `withHeartbeat` and `maxListeners` has the
\* heartbeat check switched off and a registry of 100 entries, and no heartbeat
\* check of it ever finds the connection timed out.
C25_HeartbeatOffByDefault ==
  /\ ~opts.withHeartbeat
  /\ opts.maxListeners = 100
  /\ last.op = "heartbeatTick" => last.ret # "timeout"


\* C26: for every random draw held fixed, the delay of the next attempt number is
\* no shorter than the delay of this one, and equal to it once baseMs *
\* factor^attempt has reached maxMs.
C26_BackoffMonotone ==
  LET b == opts.reconnectBackoff
      a == backoffAttempts
  IN  \A r \in Rnds :
        /\ BackoffDelay(b, a, r) <= BackoffDelay(b, a + 1, r)
        /\ Capped(b, a) => BackoffDelay(b, a + 1, r) = BackoffDelay(b, a, r)

\* under the default configuration the sixth failure in a row was scheduled with
\* the capped delay, after five growing ones
C26_Witness ==
  /\ opts.reconnectBackoff = DefaultOptions.reconnectBackoff
  /\ backoffAttempts = 6
  /\ Capped(opts.reconnectBackoff, 5)
  /\ ~Capped(opts.reconnectBackoff, 4)
  /\ Len(retryTimers) = 6
  /\ retryTimers[1] = now + 1000
  /\ retryTimers[6] = now + 15000

C28_LockFreeAtRest ==
  ~connectLock

\* C28 amended: whenever no task is running the lock is set exactly while the
\* state is connecting, and then a handle is held that has not signalled `open`:
\* the lock is taken by forceConnect and released by the open signal, the error
\* signal, close() or a constructor that throws.
C28_LockWhileConnecting ==
  /\ connectLock <=> connectionState = "connecting"
  /\ connectLock => es # NoHandle /\ es \notin opened

\* the lock is held while the client waits for the open signal and time passes
C28_Witness ==
  /\ connectLock
  /\ connectionState = "connecting"
  /\ last.op = "advance"
  /\ now > StartTime
  /\ es # NoHandle

\* C29: whenever no task is running the connection state is not `error`: the
\* handling of a failure ends in `disconnected`.
C29_ErrorIsTransient ==
  connectionState # "error"

\* C30: maybeConnect with no handle, not connecting, the lock free and less than
\* the minimum interval after the last recorded attempt returns the object as it
\* is, whatever the constructor would do; a backoff retry that fires then changes
\* nothing but its own timer; and an attempt is recorded at the current time, at
\* least the minimum interval after the one recorded before it.
C30_DebounceNoOp ==
  [][LET debounced == /\ es = NoHandle
                      /\ connectionState # "connecting"
                      /\ ~connectLock
                      /\ now - lastConnectAttempt < MinConnectInterval
     IN  /\ debounced => \A in \in Inputs : maybeConnect(Cur, in) = Cur
         /\ debounced /\ last'.op = "backoff"
              => UNCHANGED <<es, live, constructed, ctorFailed, connectionState,
                             connectLock, connectAttempts, lastConnectAttempt,
                             idleTimer, heartbeatIntervalId, backoffAttempts>>
                 /\ Len(retryTimers') = Len(retryTimers) - 1
         /\ lastConnectAttempt' # lastConnectAttempt
              => /\ lastConnectAttempt' = now'
                 /\ lastConnectAttempt' - lastConnectAttempt >= MinConnectInterval
                 /\ connectAttempts' = connectAttempts + 1]_vars

\* reconnect() right after the attempt of onBroadcast: the handle was closed and
\* the debounce kept maybeConnect from opening another
C30_Witness ==
  /\ last.op = "reconnect"
  /\ HasAnyListener(Cur)
  /\ opts.url # NoUrl
  /\ es = NoHandle
  /\ now - lastConnectAttempt < MinConnectInterval
  /\ connectAttempts = 1
  /\ constructed = 1
  /\ retryTimers = << >>

\* retries scheduled by the task of a step: the timers added, counting the one
\* a backoff task has consumed
RetriesScheduled ==
  Len(retryTimers') - Len(retryTimers) + (IF last'.op = "backoff" THEN 1 ELSE 0)

\* a timer is pending whose delay was computed with this attempt number
RetryPendingFor(attempt) ==
  \E i \in 1..Len(retryTimers'), in \in Inputs :
    retryTimers'[i] = now' + BackoffDelay(opts.reconnectBackoff, attempt, in.rnd)

\* C31: the attempt number is 0 after an open signal; a reconnect() sets it to 0
\* before anything it schedules; every other task leaves it alone but for the
\* retries it schedules; a task schedules at most one retry, which adds 1 and is
\* delayed by the delay of the attempt number it found.
C31_AttemptCounter ==
  [][/\ RetriesScheduled \in {0, 1}
     /\ last'.op = "open" => RetriesScheduled = 0 /\ backoffAttempts' = 0
     /\ last'.op = "reconnect"
          => /\ backoffAttempts' = RetriesScheduled
             /\ RetriesScheduled = 1 => RetryPendingFor(0)
     /\ last'.op \notin {"open", "reconnect"}
          => /\ backoffAttempts' = backoffAttempts + RetriesScheduled
             /\ RetriesScheduled = 1 => RetryPendingFor(backoffAttempts)]_vars

\* three failures in a row under the default backoff: the retries are delayed by
\* the delays of attempts 0, 1 and 2
C31_Witness ==
  /\ backoffAttempts = 3
  /\ opts.reconnectBackoff = DefaultOptions.reconnectBackoff
  /\ retryTimers = <<now + 1000, now + 1800, now + 3240>>

\* C34: a reconnect() task closes the handle that was held before it constructs
\* another, and leaves the attempt number at 0, or at 1 with a retry pending that
\* is delayed by the delay of attempt 0 when its own construction failed; a
\* retry scheduled by the task after a reconnect() that has scheduled none is
\* delayed by the delay of attempt 0.
C34_ReconnectStartsAfresh ==
  [][/\ last'.op = "reconnect"
          => /\ es # NoHandle => es \notin live'
             /\ es' # NoHandle => es' \notin live /\ live' = {es'}
             /\ backoffAttempts' = RetriesScheduled
             /\ RetriesScheduled = 1 => RetryPendingFor(0)
     /\ last.op = "reconnect" /\ backoffAttempts = 0 /\ RetriesScheduled = 1
          => RetryPendingFor(0)]_vars

\* after two failures reconnect() replaces the handle held, or fails to construct
\* one and schedules its retry with the first delay
C34_Witness ==
  /\ last.op = "reconnect"
  /\ opts.reconnectBackoff = DefaultOptions.reconnectBackoff
  /\ backoffAttempts = 1
  /\ Len(retryTimers) = 3
  /\ retryTimers = <<now + 1000, now + 1000, now + 1800>>

\* C39: at most one backoff retry timer is pending.
C39_OneRetryPending ==
  Len(retryTimers) <= 1

\* C32: a tick of the heartbeat interval closes the handle held (and reconnects)
\* exactly when both the last frame and the last ping are more than twice the
\* expected interval old; every frame delivered, ping or not, parseable or not,
\* stamps lastMessageAt and leaves the handle alone; so a tick at most twice the
\* expected interval after the last frame leaves the handle alone.
C32_HeartbeatCheck ==
  [][LET expected == 2 * opts.expectedPingInterval
         since == Min(now' - lastHeartbeatAt, now' - lastMessageAt)
     IN  /\ last'.op = "heartbeatTick"
              => /\ es # NoHandle /\ opts.withHeartbeat
                 /\ es \notin live' <=> since > expected
                 /\ now' - lastMessageAt <= expected
                      => es' = es /\ live' = live /\ connectionState' = connectionState
         /\ last'.op = "frame"
              => /\ lastMessageAt' = now'
                 /\ last'.frame = PingFrame => lastHeartbeatAt' = now'
                 /\ last'.frame # PingFrame => lastHeartbeatAt' = lastHeartbeatAt
                 /\ es' = es /\ live' = live /\ connectionState' = connectionState]_vars

\* a tick finds the last ping too old and a frame that is no ping recent enough:
\* the connection is kept
C32_Witness ==
  /\ last.op = "heartbeatTick"
  /\ last.ret = "none"
  /\ es \in opened
  /\ now - lastHeartbeatAt > 2 * opts.expectedPingInterval
  /\ now - lastMessageAt <= 2 * opts.expectedPingInterval
  /\ lastMessageAt > lastHeartbeatAt

\* C38: the heartbeat check declares a timeout only for a handle that has
\* signalled `open`.
C38_TimeoutOnlyWhenOpened ==
  [][last'.op = "heartbeatTick" /\ last'.ret = "timeout" => es \in opened]_vars

\* C33: a frame whose text is no JSON object invokes no callback.
C33_NonStructuredDiscarded ==
  last.op = "frame" /\ last.frame.parse # "object" => invoked = << >>

\* C35: when postAndListen has reached its await the entry is stored and a handle
\* is held; the entry stays while the request is in flight unless a terminal frame
\* for its id arrives or the caller runs an unsubscribe closure it holds for that
\* id from an earlier task; a frame for that id arriving in flight invokes the task's
\* callback once with the frame's event name, and a terminal one removes the entry.
C35_DeliveredWhileInFlight ==
  [][/\ last'.op = "postAndListen" /\ last'.ret = "pending"
          => /\ last'.arg \in pendingPosts'
             /\ last'.arg \in DOMAIN listeners'
             /\ listeners'[last'.arg] = CallbackOf[last'.arg]
             /\ es' # NoHandle
     /\ \A r \in pendingPosts \cap pendingPosts' :
          r \in DOMAIN listeners
            /\ ~(last'.op = "frame" /\ last'.frame.requestId = r
                   /\ EventNameOf(last'.frame) \in {"done", "error"})
            /\ ~(last'.op = "unsubscribe" /\ last'.arg = r)
            => r \in DOMAIN listeners' /\ listeners'[r] = listeners[r]
     /\ last'.op = "frame" /\ last'.frame.parse = "object"
          /\ last'.frame.requestId \in pendingPosts \cap DOMAIN listeners
          => /\ invoked' = <<[via |-> "id", cb |-> listeners[last'.frame.requestId],
                              rid |-> last'.frame.requestId,
                              event |-> EventNameOf(last'.frame)]>>
             /\ EventNameOf(last'.frame) \in {"done", "error"}
                  => last'.frame.requestId \notin DOMAIN listeners']_vars

\* the `done` frame for r1 arrived before r1's request was answered: the callback
\* was called and the entry is gone
C35_Witness ==
  /\ last.op = "frame"
  /\ last.frame.requestId = "r1"
  /\ last.frame.event = "done"
  /\ "r1" \in pendingPosts
  /\ invoked = <<[via |-> "id", cb |-> "f", rid |-> "r1", event |-> "done"]>>
  /\ "r1" \notin DOMAIN listeners

\* C36: whenever no task is running a handle is held exactly when the state is
\* connecting or connected; the handle held has signalled `open` exactly when
\* the state is connected.
C36_HandleIffConnectingOrConnected ==
  /\ es # NoHandle <=> connectionState \in {"connecting", "connected"}
  /\ connectionState \in {"disconnected", "error"} => es = NoHandle /\ live = {}
  /\ connectionState = "connected" <=> es # NoHandle /\ es \in opened

\* after an error signal and a retry the second handle is open; and the state
\* `error` is at rest without a handle
C36_Witness ==
  /\ connectionState = "connected"
  /\ es = 2
  /\ es \in opened
  /\ last.op = "open"
  /\ Len(retryTimers) = 0

\* C37: whenever no task is running the lock is set exactly when the state is
\* connecting; a task that leaves connecting leaves the lock free, and a task
\* that sets the lock enters connecting.
C37_LockIffConnecting ==
  /\ connectLock = (connectionState = "connecting")
  /\ [][/\ connectLock' = (connectionState' = "connecting")
        /\ connectionState = "connecting" /\ connectionState' # "connecting"
             => ~connectLock'
                /\ last'.op \in {"open", "sseError", "close", "reconnect"}
        /\ ~connectLock /\ connectLock'
             => connectionState' = "connecting" /\ es' # NoHandle /\ es' \notin live]_vars

\* a construction that threw while a retry of an earlier failure is pending left
\* the state `error` with the lock free
C37_Witness ==
  /\ connectionState = "error"
  /\ ~connectLock
  /\ ctorFailed = 2
  /\ constructed = 1
  /\ last.op \in {"connect", "backoff", "onBroadcast"}

\* C40: after a terminal frame whose callback has registered a new listener under
\* the frame's correlation id, that id is registered.
C40_ReuseSurvivesTerminal ==
  /\ last.op = "frame"
  /\ EventNameOf(last.frame) \in {"done", "error"}
  /\ \E i \in 1..Len(invoked) : invoked[i].via = "id" /\ invoked[i].cb \in Resubscribers
  => last.frame.requestId \in DOMAIN listeners

====
